---- MODULE Spec2Model ----
(***************************************************************************)
(* A model of the Royal Tailors store: the four tables of the schema       *)
(* migration (customers, fabrics, garments, orders), their constraints,    *)
(* the two trigger functions and the row-level-security policies.          *)
(*                                                                         *)
(* A statement (insert, update, delete) is one atomic step of the store,    *)
(* run in a transaction of its own: now() is the store's clock when the    *)
(* statement runs.                                                         *)
(*                                                                         *)
(* The list screens of the browser (AdminFabrics, AdminProducts, Garments) *)
(* are modelled by their component state: the fetch of the table on mount  *)
(* and the filter over the fetched rows.                                   *)
(***************************************************************************)
EXTENDS Integers, Sequences, FiniteSets, TLC

VARIABLES clock, customers, fabrics, garments, orders, last,
          screen, loading, collection, filtered, searchTerm, selection,
          fetch, returned, logged, queries, crashed,
          isAddModalOpen, requests

\* The store, and the last statement it ran.
store == <<clock, customers, fabrics, garments, orders, last>>

\* The state of the list screen that the browser shows.
ui == <<screen, loading, collection, filtered, searchTerm, selection,
        fetch, returned, logged, queries, crashed, isAddModalOpen, requests>>

vars == <<store, ui>>

----------------------------------------------------------------------------
(* Bounds of the model. *)

\* The clock starts at this Unix epoch second.
BaseEpoch == 1700000000
\* Clock ticks per second: a timestamptz is a count of ticks.
TicksPerSec == 2
\* The clock stops after this many ticks.
MaxClock == 2

----------------------------------------------------------------------------
(* SQL values. NULL is a value of its own in every column type. *)

NULL == "NULL"
\* An insert that names no value for a column that has a DEFAULT.
DEFAULT == "DEFAULT"
\* An update that does not assign the column.
KEEP == "KEEP"
\* Text is a sequence of characters; these are not texts.
NullText == <<"NULL">>
KeepText == <<"KEEP">>
\* A boolean column in an UPDATE: <<b>> assigns b, KeepFlag leaves it.
KeepFlag == <<>>
\* The selection that filters nothing.
All == <<"a", "l", "l">>
\* A timestamp column the statement does not name.
AbsentTs == 0 - 1
\* No row (the old row of an insert, the new row of a delete).
NoRow == [absent |-> TRUE]

\* a = b in SQL's three-valued logic, as a WHERE / USING clause reads it.
SqlEq(a, b) == a # NULL /\ b # NULL /\ a = b

----------------------------------------------------------------------------
(* Time and text. *)

UsecPerSec == 10 ^ 6

\* EXTRACT(epoch FROM ts): whole seconds and the microseconds past them.
EpochSec(ts) == BaseEpoch + (ts \div TicksPerSec)
EpochUsec(ts) == (ts % TicksPerSec) * (UsecPerSec \div TicksPerSec)

DigitChar == <<"0", "1", "2", "3", "4", "5", "6", "7", "8", "9">>

\* n::text for a natural number.
RECURSIVE IntText(_)
IntText(n) ==
  IF n < 10 THEN <<DigitChar[n + 1]>>
  ELSE IntText(n \div 10) \o <<DigitChar[(n % 10) + 1]>>

\* The six digits after the decimal point of a numeric of scale 6.
FracText(usec) == [i \in 1..6 |-> DigitChar[((usec \div (10 ^ (6 - i))) % 10) + 1]]

\* EXTRACT(epoch FROM ts)::text, e.g. 1700000000.500000
EpochText(ts) == IntText(EpochSec(ts)) \o <<".">> \o FracText(EpochUsec(ts))

\* A faulty LPAD that pads but never cuts.
LPADNoCut(str, len, fill) ==
  IF Len(str) >= len THEN str
  ELSE [i \in 1..(len - Len(str)) |-> fill] \o str

\* LPAD(str, len, fill) for a one-character fill: pads on the left, and cuts
\* a longer string down to its first len characters.
LPAD(str, len, fill) ==
  IF Len(str) >= len THEN SubSeq(str, 1, len)
  ELSE [i \in 1..(len - Len(str)) |-> fill] \o str

----------------------------------------------------------------------------
(* Trigger functions. *)

\* A faulty trigger function that issues a code whatever the statement
\* supplies.
set_tracking_id_always(new, now) ==
  [new EXCEPT !.tracking_id = <<"R", "T">> \o LPAD(EpochText(now), 10, "0")]

\* set_tracking_id(), BEFORE INSERT ON orders.
set_tracking_id(new, now) ==
  IF new.tracking_id = NullText \/ new.tracking_id = <<>>
  THEN [new EXCEPT !.tracking_id = <<"R", "T">> \o LPAD(EpochText(now), 10, "0")]
  ELSE new

\* A faulty trigger function that keeps the updated_at of the statement.
update_updated_at_keep(new, now) == new

\* update_updated_at_column(), BEFORE UPDATE on each of the four tables.
update_updated_at_column(new, now) == [new EXCEPT !.updated_at = now]

----------------------------------------------------------------------------
(* Callers and row-level security. *)

Anon == [role |-> "anon", uid |-> NULL, jwt_role |-> "anon"]
User(u) == [role |-> "authenticated", uid |-> u, jwt_role |-> "authenticated"]
Admin == [role |-> "authenticated", uid |-> "a1", jwt_role |-> "admin"]

Callers == {Anon, User("c1"), Admin}

IsAdmin(c) == c.role = "authenticated" /\ c.jwt_role = "admin"

\* The CREATE POLICY statements, as written: using / check name the clause's
\* expression, "none" where the statement has no such clause.
\* Three FOR SELECT policies are written WITH CHECK (true) and without
\* USING. CREATE POLICY refuses such a statement (WITH CHECK cannot be
\* applied to SELECT or DELETE), so the policy is not created; and a SELECT
\* reads USING clauses only. They are listed with the clauses they are
\* written with, and admit no row.
Policies == {
  [name |-> "Anyone can insert customer data", table |-> "customers",
   cmd |-> "INSERT", roles |-> {"anon", "authenticated"},
   using |-> "none", check |-> "true"],
  [name |-> "Customers can view their own data", table |-> "customers",
   cmd |-> "SELECT", roles |-> {"authenticated"},
   using |-> "uid_is_id", check |-> "none"],
  [name |-> "Admins can view all customers", table |-> "customers",
   cmd |-> "ALL", roles |-> {"authenticated"},
   using |-> "is_admin", check |-> "none"],
  [name |-> "Anyone can view fabrics", table |-> "fabrics",
   cmd |-> "SELECT", roles |-> {"anon", "authenticated"},
   using |-> "none", check |-> "true"],
  [name |-> "Admins can manage fabrics", table |-> "fabrics",
   cmd |-> "ALL", roles |-> {"authenticated"},
   using |-> "is_admin", check |-> "none"],
  [name |-> "Anyone can view garments", table |-> "garments",
   cmd |-> "SELECT", roles |-> {"anon", "authenticated"},
   using |-> "none", check |-> "true"],
  [name |-> "Admins can manage garments", table |-> "garments",
   cmd |-> "ALL", roles |-> {"authenticated"},
   using |-> "is_admin", check |-> "none"],
  [name |-> "Anyone can track orders by tracking_id", table |-> "orders",
   cmd |-> "SELECT", roles |-> {"anon", "authenticated"},
   using |-> "none", check |-> "true"],
  [name |-> "Customers can create orders", table |-> "orders",
   cmd |-> "INSERT", roles |-> {"anon", "authenticated"},
   using |-> "none", check |-> "true"],
  [name |-> "Customers can view their own orders", table |-> "orders",
   cmd |-> "SELECT", roles |-> {"authenticated"},
   using |-> "uid_is_customer", check |-> "none"],
  [name |-> "Admins can manage all orders", table |-> "orders",
   cmd |-> "ALL", roles |-> {"authenticated"},
   using |-> "is_admin", check |-> "none"] }

\* A faulty policy set whose owner rule on customers admits every signed-in
\* caller.
EvalPolicyAnyUser(expr, c, id, row) ==
  CASE expr = "true" -> TRUE
    [] expr = "is_admin" -> c.jwt_role = "admin"
    [] expr = "uid_is_id" -> c.uid # NULL
    [] expr = "uid_is_customer" -> SqlEq(row.customer_id, c.uid)
    [] OTHER -> FALSE

\* A policy expression on a row (id is the row's primary key).
EvalPolicy(expr, c, id, row) ==
  CASE expr = "true" -> TRUE
    [] expr = "is_admin" -> c.jwt_role = "admin"
    [] expr = "uid_is_id" -> SqlEq(c.uid, id)
    [] expr = "uid_is_customer" -> SqlEq(row.customer_id, c.uid)
    [] OTHER -> FALSE

\* A faulty choice that applies a policy to every command, whatever its FOR.
ApplicableAnyCommand(c, table, cmd) ==
  {p \in Policies : p.table = table /\ c.role \in p.roles}

\* The policies that apply to a command of a caller: those of the table, for
\* the command or FOR ALL, granted TO the caller's role.
Applicable(c, table, cmd) ==
  {p \in Policies : p.table = table /\ p.cmd \in {cmd, "ALL"} /\ c.role \in p.roles}

\* The same choice among the policies of a rule set ps.
ApplicableIn(ps, c, table, cmd) == Applicable(c, table, cmd) \cap ps

\* A faulty reading in which a policy without WITH CHECK checks nothing and
\* so admits no new row.
CheckOfWritten(p) == p.check

\* WITH CHECK of a policy; a FOR ALL policy without one checks its USING.
CheckOf(p) == IF p.check = "none" THEN p.using ELSE p.check

\* An existing row is visible to the command: some applicable USING holds.
PassesUsing(c, table, cmd, id, row) ==
  \E p \in Applicable(c, table, cmd) :
    p.using # "none" /\ EvalPolicy(p.using, c, id, row)

\* A new row is admitted: some applicable WITH CHECK holds.
PassesCheck(c, table, cmd, id, row) ==
  \E p \in Applicable(c, table, cmd) :
    CheckOf(p) # "none" /\ EvalPolicy(CheckOf(p), c, id, row)

----------------------------------------------------------------------------
(* The schema's constraints on orders. *)

Statuses == {"confirmed", "fabric_ready", "cutting", "stitching",
             "embroidery", "quality_check", "ready", "completed"}

\* CHECK (status IN (...)): a CHECK fails only when its expression is false,
\* and NULL IN (...) is NULL.
StatusCheck(row) == row.status = NULL \/ row.status \in Statuses

\* tracking_id ... NOT NULL
TrackingNotNull(row) == row.tracking_id # NullText

\* A faulty schema without the UNIQUE constraint.
TrackingUniqueOff(id, row) == TRUE

\* tracking_id ... UNIQUE, against the rows other than id.
TrackingUnique(id, row) ==
  \A o \in DOMAIN orders : o # id => orders[o].tracking_id # row.tracking_id

\* The three REFERENCES of orders; a NULL reference refers to nothing.
OrderRefsOk(row) ==
  /\ row.customer_id = NULL \/ row.customer_id \in DOMAIN customers
  /\ row.fabric_id = NULL \/ row.fabric_id \in DOMAIN fabrics
  /\ row.garment_id = NULL \/ row.garment_id \in DOMAIN garments

\* The first constraint a new orders row violates, "ok" when none.
OrderConstraints(id, row) ==
  CASE ~TrackingNotNull(row) -> "not_null_violation"
    [] ~StatusCheck(row) -> "check_violation"
    [] ~TrackingUnique(id, row) -> "unique_violation"
    [] ~OrderRefsOk(row) -> "fk_violation"
    [] OTHER -> "ok"

\* A table with row r stored under id.
Put(table, id, r) ==
  [i \in (DOMAIN table) \cup {id} |-> IF i = id THEN r ELSE table[i]]

\* A table without the rows of ids.
Drop(table, ids) == [i \in (DOMAIN table) \ ids |-> table[i]]

----------------------------------------------------------------------------
(* Statements on orders. *)

\* A faulty INSERT that stamps updated_at whatever the statement supplies.
OrderDefaultsStamped(in, now) ==
  [customer_id |-> in.customer_id,
   fabric_id |-> in.fabric_id,
   garment_id |-> in.garment_id,
   tracking_id |-> in.tracking_id,
   status |-> IF in.status = DEFAULT THEN "confirmed" ELSE in.status,
   updated_at |-> now]

\* The row an INSERT INTO orders builds from its values and the column
\* defaults, before the triggers.
OrderDefaults(in, now) ==
  [customer_id |-> in.customer_id,
   fabric_id |-> in.fabric_id,
   garment_id |-> in.garment_id,
   tracking_id |-> in.tracking_id,
   status |-> IF in.status = DEFAULT THEN "confirmed" ELSE in.status,
   updated_at |-> IF in.updated_at = AbsentTs THEN now ELSE in.updated_at]

\* The outcome of INSERT INTO orders of row new under id.
InsertOrderResult(c, id, new) ==
  IF ~PassesCheck(c, "orders", "INSERT", id, new) THEN "rls_violation"
  ELSE IF id \in DOMAIN orders THEN "unique_violation"
  ELSE OrderConstraints(id, new)

\* A faulty INSERT that takes one unit from the stock of the order's fabric.
InsertOrderTakesStock(c, now, in) ==
  LET new == set_tracking_id(OrderDefaults(in, now), now)
      res == InsertOrderResult(c, in.id, new)
      takes == res = "ok" /\ new.fabric_id \in DOMAIN fabrics
  IN /\ orders' = IF res = "ok" THEN Put(orders, in.id, new) ELSE orders
     /\ fabrics' = IF takes
                    THEN [fabrics EXCEPT ![new.fabric_id].stock = @ - 1]
                    ELSE fabrics
     /\ last' = [op |-> "insert", table |-> "orders", caller |-> c,
                 id |-> in.id, now |-> now, input |-> in,
                 old |-> NoRow, row |-> new, result |-> res, cascade |-> {}]
     /\ UNCHANGED <<clock, customers, garments, ui>>

\* A faulty INSERT that leaves the row stored when the foreign-key check,
\* which runs after the row is written, fails.
InsertOrderNoRollback(c, now, in) ==
  LET new == set_tracking_id(OrderDefaults(in, now), now)
      res == InsertOrderResult(c, in.id, new)
  IN /\ orders' = IF res \in {"ok", "fk_violation"}
                   THEN Put(orders, in.id, new) ELSE orders
     /\ last' = [op |-> "insert", table |-> "orders", caller |-> c,
                 id |-> in.id, now |-> now, input |-> in,
                 old |-> NoRow, row |-> new, result |-> res, cascade |-> {}]
     /\ UNCHANGED <<clock, customers, fabrics, garments, ui>>

\* INSERT INTO orders: defaults, the BEFORE INSERT trigger, the policies, the
\* constraints.
InsertOrder(c, now, in) ==
  LET new == set_tracking_id(OrderDefaults(in, now), now)
      res == InsertOrderResult(c, in.id, new)
  IN /\ orders' = IF res = "ok" THEN Put(orders, in.id, new) ELSE orders
     /\ last' = [op |-> "insert", table |-> "orders", caller |-> c,
                 id |-> in.id, now |-> now, input |-> in,
                 old |-> NoRow, row |-> new, result |-> res, cascade |-> {}]
     /\ UNCHANGED <<clock, customers, fabrics, garments, ui>>

\* The row an UPDATE orders SET ... assigns, before the triggers.
OrderAssign(old, patch) ==
  [customer_id |-> IF patch.customer_id = KEEP THEN old.customer_id ELSE patch.customer_id,
   fabric_id |-> old.fabric_id,
   garment_id |-> old.garment_id,
   tracking_id |-> IF patch.tracking_id = KeepText THEN old.tracking_id ELSE patch.tracking_id,
   status |-> IF patch.status = KEEP THEN old.status ELSE patch.status,
   updated_at |-> IF patch.updated_at = AbsentTs THEN old.updated_at ELSE patch.updated_at]

\* The place of a status in the intended forward order.
StatusRank(st) ==
  CASE st = "confirmed" -> 1 [] st = "fabric_ready" -> 2 [] st = "cutting" -> 3
    [] st = "stitching" -> 4 [] st = "embroidery" -> 5 [] st = "quality_check" -> 6
    [] st = "ready" -> 7 [] st = "completed" -> 8 [] OTHER -> 0

\* A faulty UPDATE that rejects a move backward in the forward order.
UpdateOrderResultForwardOnly(c, id, old, new) ==
  IF ~PassesUsing(c, "orders", "UPDATE", id, old) THEN "no_rows"
  ELSE IF ~PassesCheck(c, "orders", "UPDATE", id, new) THEN "rls_violation"
  ELSE IF StatusRank(new.status) < StatusRank(old.status) THEN "check_violation"
  ELSE OrderConstraints(id, new)

\* A faulty UPDATE that skips the policies.
UpdateOrderResultNoRls(c, id, old, new) == OrderConstraints(id, new)

\* The outcome of UPDATE orders ... WHERE id = id, turning old into new.
UpdateOrderResult(c, id, old, new) ==
  IF ~PassesUsing(c, "orders", "UPDATE", id, old) THEN "no_rows"
  ELSE IF ~PassesCheck(c, "orders", "UPDATE", id, new) THEN "rls_violation"
  ELSE OrderConstraints(id, new)

\* UPDATE orders SET ... WHERE id = id: the BEFORE UPDATE trigger, the
\* policies, the constraints.
UpdateOrder(c, now, id, patch) ==
  LET old == IF id \in DOMAIN orders THEN orders[id] ELSE NoRow
      new == IF id \in DOMAIN orders
             THEN update_updated_at_column(OrderAssign(old, patch), now)
             ELSE NoRow
      res == IF id \in DOMAIN orders THEN UpdateOrderResult(c, id, old, new)
             ELSE "no_rows"
      seen == res # "no_rows"
  IN /\ orders' = IF res = "ok" THEN Put(orders, id, new) ELSE orders
     /\ last' = [op |-> "update", table |-> "orders", caller |-> c,
                 id |-> id, now |-> now, input |-> patch,
                 old |-> IF seen THEN old ELSE NoRow,
                 row |-> IF seen THEN new ELSE NoRow,
                 result |-> res, cascade |-> {}]
     /\ UNCHANGED <<clock, customers, fabrics, garments, ui>>

\* DELETE FROM orders WHERE id = id.
DeleteOrder(c, now, id) ==
  LET hit == id \in DOMAIN orders /\ PassesUsing(c, "orders", "DELETE", id, orders[id])
  IN /\ orders' = IF hit THEN Drop(orders, {id}) ELSE orders
     /\ last' = [op |-> "delete", table |-> "orders", caller |-> c,
                 id |-> id, now |-> now, input |-> NoRow,
                 old |-> IF hit THEN orders[id] ELSE NoRow, row |-> NoRow,
                 result |-> IF hit THEN "ok" ELSE "no_rows", cascade |-> {}]
     /\ UNCHANGED <<clock, customers, fabrics, garments, ui>>

----------------------------------------------------------------------------
(* SELECT. *)

Tables == {"customers", "fabrics", "garments", "orders"}

\* The stored rows of a table.
TableOf(name) ==
  CASE name = "customers" -> customers
    [] name = "fabrics" -> fabrics
    [] name = "garments" -> garments
    [] name = "orders" -> orders

\* The rows of a table tab that a SELECT of caller c returns: those that
\* the USING of some applicable policy admits.
VisibleOf(c, name, tab) ==
  LET seen == {i \in DOMAIN tab : PassesUsing(c, name, "SELECT", i, tab[i])}
  IN [i \in seen |-> tab[i]]

\* The rows of the stored table that a SELECT of caller c returns.
Visible(c, name) == VisibleOf(c, name, TableOf(name))

\* SELECT * FROM name: returns the visible rows, an empty result when there
\* are none, and changes nothing.
SelectRows(c, now, name) ==
  /\ last' = [op |-> "select", table |-> name, caller |-> c,
              id |-> NULL, now |-> now, input |-> NoRow,
              old |-> NoRow, row |-> NoRow, result |-> "ok", cascade |-> {},
              rows |-> Visible(c, name)]
  /\ UNCHANGED <<clock, customers, fabrics, garments, orders, ui>>

----------------------------------------------------------------------------
(* Statements on customers, fabrics and garments. *)

\* The orders that reference a row of another table through column col.
Referencing(col, id) == {o \in DOMAIN orders : orders[o][col] = id}

\* INSERT INTO customers.
InsertCustomer(c, now, in) ==
  LET new == [updated_at |-> IF in.updated_at = AbsentTs THEN now ELSE in.updated_at]
      res == IF ~PassesCheck(c, "customers", "INSERT", in.id, new) THEN "rls_violation"
             ELSE IF in.id \in DOMAIN customers THEN "unique_violation"
             ELSE "ok"
  IN /\ customers' = IF res = "ok" THEN Put(customers, in.id, new) ELSE customers
     /\ last' = [op |-> "insert", table |-> "customers", caller |-> c,
                 id |-> in.id, now |-> now, input |-> in,
                 old |-> NoRow, row |-> new, result |-> res, cascade |-> {}]
     /\ UNCHANGED <<clock, fabrics, garments, orders, ui>>

\* UPDATE customers SET ... WHERE id = id.
UpdateCustomer(c, now, id, patch) ==
  LET hit == id \in DOMAIN customers
             /\ PassesUsing(c, "customers", "UPDATE", id, customers[id])
      old == IF hit THEN customers[id] ELSE NoRow
      new == IF hit
             THEN update_updated_at_column(
                    [updated_at |-> IF patch.updated_at = AbsentTs
                                    THEN old.updated_at ELSE patch.updated_at], now)
             ELSE NoRow
      res == IF ~hit THEN "no_rows"
             ELSE IF ~PassesCheck(c, "customers", "UPDATE", id, new) THEN "rls_violation"
             ELSE "ok"
  IN /\ customers' = IF res = "ok" THEN Put(customers, id, new) ELSE customers
     /\ last' = [op |-> "update", table |-> "customers", caller |-> c,
                 id |-> id, now |-> now, input |-> patch,
                 old |-> old, row |-> new, result |-> res, cascade |-> {}]
     /\ UNCHANGED <<clock, fabrics, garments, orders, ui>>

\* A faulty DELETE FROM customers that leaves the customer's orders stored.
DeleteCustomerNoCascade(c, now, id) ==
  LET hit == id \in DOMAIN customers
             /\ PassesUsing(c, "customers", "DELETE", id, customers[id])
  IN /\ customers' = IF hit THEN Drop(customers, {id}) ELSE customers
     /\ last' = [op |-> "delete", table |-> "customers", caller |-> c,
                 id |-> id, now |-> now, input |-> NoRow,
                 old |-> IF hit THEN customers[id] ELSE NoRow, row |-> NoRow,
                 result |-> IF hit THEN "ok" ELSE "no_rows", cascade |-> {}]
     /\ UNCHANGED <<clock, fabrics, garments, orders, ui>>

\* DELETE FROM customers WHERE id = id: the orders that reference the
\* customer are deleted with it (ON DELETE CASCADE).
DeleteCustomer(c, now, id) ==
  LET hit == id \in DOMAIN customers
             /\ PassesUsing(c, "customers", "DELETE", id, customers[id])
      gone == IF hit THEN Referencing("customer_id", id) ELSE {}
  IN /\ customers' = IF hit THEN Drop(customers, {id}) ELSE customers
     /\ orders' = Drop(orders, gone)
     /\ last' = [op |-> "delete", table |-> "customers", caller |-> c,
                 id |-> id, now |-> now, input |-> NoRow,
                 old |-> IF hit THEN customers[id] ELSE NoRow, row |-> NoRow,
                 result |-> IF hit THEN "ok" ELSE "no_rows", cascade |-> gone]
     /\ UNCHANGED <<clock, fabrics, garments, ui>>

\* What INSERT INTO fabrics does: the table after it, and its record.
FabricInsert(c, now, in) ==
  LET new == [stock |-> in.stock, featured |-> in.featured,
              updated_at |-> IF in.updated_at = AbsentTs THEN now ELSE in.updated_at]
      res == IF ~PassesCheck(c, "fabrics", "INSERT", in.id, new) THEN "rls_violation"
             ELSE IF in.id \in DOMAIN fabrics THEN "unique_violation"
             ELSE "ok"
  IN [fabrics |-> IF res = "ok" THEN Put(fabrics, in.id, new) ELSE fabrics,
      last |-> [op |-> "insert", table |-> "fabrics", caller |-> c,
                id |-> in.id, now |-> now, input |-> in,
                old |-> NoRow, row |-> new, result |-> res, cascade |-> {}]]

\* INSERT INTO fabrics.
InsertFabric(c, now, in) ==
  /\ fabrics' = FabricInsert(c, now, in).fabrics
  /\ last' = FabricInsert(c, now, in).last
  /\ UNCHANGED <<clock, customers, garments, orders, ui>>

\* What UPDATE fabrics SET ... WHERE id = id does: the table after it, and
\* its record.
FabricUpdate(c, now, id, patch) ==
  LET hit == id \in DOMAIN fabrics
             /\ PassesUsing(c, "fabrics", "UPDATE", id, fabrics[id])
      old == IF hit THEN fabrics[id] ELSE NoRow
      new == IF hit
             THEN update_updated_at_column(
                    [stock |-> old.stock,
                     featured |-> IF patch.featured = KeepFlag
                                  THEN old.featured ELSE patch.featured[1],
                     updated_at |-> IF patch.updated_at = AbsentTs
                                    THEN old.updated_at ELSE patch.updated_at], now)
             ELSE NoRow
      res == IF ~hit THEN "no_rows"
             ELSE IF ~PassesCheck(c, "fabrics", "UPDATE", id, new) THEN "rls_violation"
             ELSE "ok"
  IN [fabrics |-> IF res = "ok" THEN Put(fabrics, id, new) ELSE fabrics,
      last |-> [op |-> "update", table |-> "fabrics", caller |-> c,
                id |-> id, now |-> now, input |-> patch,
                old |-> old, row |-> new, result |-> res, cascade |-> {}]]

\* UPDATE fabrics SET ... WHERE id = id.
UpdateFabric(c, now, id, patch) ==
  /\ fabrics' = FabricUpdate(c, now, id, patch).fabrics
  /\ last' = FabricUpdate(c, now, id, patch).last
  /\ UNCHANGED <<clock, customers, garments, orders, ui>>

\* A faulty schema whose references do not restrict a delete.
DeleteReferencedOk(col, id) == "ok"

\* The outcome of a DELETE of a visible row of a table that orders reference
\* through column col: the REFERENCES has no ON DELETE clause, so the delete
\* of a referenced row is an error.
DeleteReferencedResult(col, id) ==
  IF Referencing(col, id) # {} THEN "fk_violation" ELSE "ok"

\* DELETE FROM fabrics WHERE id = id.
DeleteFabric(c, now, id) ==
  LET hit == id \in DOMAIN fabrics
             /\ PassesUsing(c, "fabrics", "DELETE", id, fabrics[id])
      res == IF ~hit THEN "no_rows" ELSE DeleteReferencedResult("fabric_id", id)
  IN /\ fabrics' = IF res = "ok" THEN Drop(fabrics, {id}) ELSE fabrics
     /\ last' = [op |-> "delete", table |-> "fabrics", caller |-> c,
                 id |-> id, now |-> now, input |-> NoRow,
                 old |-> IF hit THEN fabrics[id] ELSE NoRow, row |-> NoRow,
                 result |-> res, cascade |-> {}]
     /\ UNCHANGED <<clock, customers, garments, orders, ui>>

\* What INSERT INTO garments does: the table after it, and its record.
GarmentInsert(c, now, in) ==
  LET new == [updated_at |-> IF in.updated_at = AbsentTs THEN now ELSE in.updated_at]
      res == IF ~PassesCheck(c, "garments", "INSERT", in.id, new) THEN "rls_violation"
             ELSE IF in.id \in DOMAIN garments THEN "unique_violation"
             ELSE "ok"
  IN [garments |-> IF res = "ok" THEN Put(garments, in.id, new) ELSE garments,
      last |-> [op |-> "insert", table |-> "garments", caller |-> c,
                id |-> in.id, now |-> now, input |-> in,
                old |-> NoRow, row |-> new, result |-> res, cascade |-> {}]]

\* INSERT INTO garments.
InsertGarment(c, now, in) ==
  /\ garments' = GarmentInsert(c, now, in).garments
  /\ last' = GarmentInsert(c, now, in).last
  /\ UNCHANGED <<clock, customers, fabrics, orders, ui>>

\* UPDATE garments SET ... WHERE id = id.
UpdateGarment(c, now, id, patch) ==
  LET hit == id \in DOMAIN garments
             /\ PassesUsing(c, "garments", "UPDATE", id, garments[id])
      old == IF hit THEN garments[id] ELSE NoRow
      new == IF hit
             THEN update_updated_at_column(
                    [updated_at |-> IF patch.updated_at = AbsentTs
                                    THEN old.updated_at ELSE patch.updated_at], now)
             ELSE NoRow
      res == IF ~hit THEN "no_rows"
             ELSE IF ~PassesCheck(c, "garments", "UPDATE", id, new) THEN "rls_violation"
             ELSE "ok"
  IN /\ garments' = IF res = "ok" THEN Put(garments, id, new) ELSE garments
     /\ last' = [op |-> "update", table |-> "garments", caller |-> c,
                 id |-> id, now |-> now, input |-> patch,
                 old |-> old, row |-> new, result |-> res, cascade |-> {}]
     /\ UNCHANGED <<clock, customers, fabrics, orders, ui>>

\* DELETE FROM garments WHERE id = id.
DeleteGarment(c, now, id) ==
  LET hit == id \in DOMAIN garments
             /\ PassesUsing(c, "garments", "DELETE", id, garments[id])
      res == IF ~hit THEN "no_rows" ELSE DeleteReferencedResult("garment_id", id)
  IN /\ garments' = IF res = "ok" THEN Drop(garments, {id}) ELSE garments
     /\ last' = [op |-> "delete", table |-> "garments", caller |-> c,
                 id |-> id, now |-> now, input |-> NoRow,
                 old |-> IF hit THEN garments[id] ELSE NoRow, row |-> NoRow,
                 result |-> res, cascade |-> {}]
     /\ UNCHANGED <<clock, customers, fabrics, orders, ui>>

\* The store's clock advances by one tick.
Tick ==
  /\ clock < MaxClock
  /\ clock' = clock + 1
  /\ UNCHANGED <<customers, fabrics, garments, orders, last, ui>>

----------------------------------------------------------------------------
(* The state after the migration: the sample fabrics and garments, no        *)
(* customers, no orders, no statement run yet.                              *)

CustIds == {"c1", "c2"}
FabricIds == {"f1"}
GarmentIds == {"g1"}
OrderIds == {"o1", "o2"}

NoStatement ==
  [op |-> "none", table |-> "none", caller |-> Anon, id |-> NULL, now |-> 0,
   input |-> NoRow, old |-> NoRow, row |-> NoRow, result |-> "none", cascade |-> {}]

InitStore ==
  /\ clock = 0
  /\ customers = [i \in {} |-> NoRow]
  /\ fabrics = [i \in FabricIds |-> [stock |-> 50, featured |-> TRUE, updated_at |-> 0]]
  /\ garments = [i \in GarmentIds |-> [updated_at |-> 0]]
  /\ orders = [i \in {} |-> NoRow]
  /\ last = NoStatement

\* No list screen is shown; the component state has its useState defaults.
Unmounted ==
  /\ screen = "none"
  /\ loading = TRUE
  /\ collection = <<>> /\ filtered = <<>>
  /\ searchTerm = <<>> /\ selection = All
  /\ fetch = "idle" /\ returned = <<>>
  /\ logged = 0 /\ queries = 0
  /\ crashed = FALSE
  /\ isAddModalOpen = FALSE /\ requests = {}

Init == InitStore /\ Unmounted

----------------------------------------------------------------------------
(* Spec: order tracking codes. Orders are inserted with and without a      *)
(* tracking code, updated and deleted by every caller class, while the     *)
(* clock runs.                                                             *)

\* The code the trigger issues in the first second of the model, as a caller
\* may also supply it.
FirstCode == <<"R", "T">> \o IntText(BaseEpoch)

TrackingInserts ==
  [id : OrderIds, customer_id : {NULL}, fabric_id : {NULL}, garment_id : {NULL},
   tracking_id : {NullText, <<>>, FirstCode, <<"A", "B">>},
   status : {DEFAULT}, updated_at : {AbsentTs}]

TrackingPatches ==
  [customer_id : {KEEP}, tracking_id : {KeepText, <<>>, <<"A", "B">>},
   status : {KEEP}, updated_at : {AbsentTs}]

Next ==
  \/ Tick
  \/ \E c \in Callers, in \in TrackingInserts : InsertOrder(c, clock, in)
  \/ \E c \in Callers, id \in OrderIds, patch \in TrackingPatches :
       UpdateOrder(c, clock, id, patch)
  \/ \E c \in Callers, id \in OrderIds : DeleteOrder(c, clock, id)

Spec == Init /\ [][Next]_vars

----------------------------------------------------------------------------
(* Properties of tracking codes, stated for Spec.                         *)

\* The ten decimal digits of n, with leading zeros.
Pad10(n) == [i \in 1..10 |-> DigitChar[((n \div (10 ^ (10 - i))) % 10) + 1]]

\* l is an INSERT INTO orders that supplies no tracking code (NULL or '').
NoCodeInsert(l) ==
  l.op = "insert" /\ l.table = "orders" /\ l.input.tracking_id \in {NullText, <<>>}

\* l is a statement on orders of the given kind.
OrderStatement(l, op) == l.op = op /\ l.table = "orders"

\* C1: for an insert into orders whose tracking_id is NULL or '', the
\* trigger sets the code to RT followed by the ten digits of the Unix epoch
\* second of now(), and that code is what a successful insert stores; at
\* epoch 1700000000 the code is RT1700000000.
C1_IssuedCode ==
  NoCodeInsert(last) =>
    /\ last.row.tracking_id = <<"R", "T">> \o Pad10(EpochSec(last.now))
    /\ Len(last.row.tracking_id) = 12
    /\ last.result = "ok" =>
         /\ last.id \in DOMAIN orders
         /\ orders[last.id].tracking_id = <<"R", "T">> \o Pad10(EpochSec(last.now))
    /\ EpochSec(last.now) = 1700000000 =>
         last.row.tracking_id =
           <<"R", "T", "1", "7", "0", "0", "0", "0", "0", "0", "0", "0">>

\* C1 witness: a successful insert with an empty code, run half a second
\* past the whole second, whose stored code is that of the whole second.
C1_Witness ==
  /\ NoCodeInsert(last)
  /\ last.input.tracking_id = <<>>
  /\ last.result = "ok"
  /\ EpochUsec(last.now) # 0
  /\ orders[last.id].tracking_id = <<"R", "T">> \o IntText(EpochSec(last.now))

\* C2: every stored order has a non-empty tracking code and no two stored
\* orders have the same tracking code.
C2_NonEmptyUnique ==
  /\ \A o \in DOMAIN orders : orders[o].tracking_id \notin {NullText, <<>>}
  /\ \A o, q \in DOMAIN orders :
       o # q => orders[o].tracking_id # orders[q].tracking_id

\* C3: no step changes the tracking code of an order that stays stored.
C3_Immutable ==
  [][\A o \in (DOMAIN orders) \cap (DOMAIN orders') :
       orders'[o].tracking_id = orders[o].tracking_id]_vars

\* C3, amended: the tracking code of a stored order changes only by an
\* administrator's successful update of that order which assigns the new
\* code; no other statement of any caller changes it.
C3_ChangedOnlyByAdminUpdate ==
  [][\A o \in (DOMAIN orders) \cap (DOMAIN orders') :
       orders'[o].tracking_id # orders[o].tracking_id =>
         /\ OrderStatement(last', "update")
         /\ last'.id = o
         /\ last'.result = "ok"
         /\ IsAdmin(last'.caller)
         /\ last'.input.tracking_id = orders'[o].tracking_id]_vars

\* C3 witness: an administrator's update has replaced an issued code.
C3_Witness ==
  /\ OrderStatement(last, "update")
  /\ last.result = "ok"
  /\ IsAdmin(last.caller)
  /\ last.old.tracking_id = <<"R", "T">> \o IntText(EpochSec(0))
  /\ orders[last.id].tracking_id = <<"A", "B">>

\* C4: an insert without a tracking code that follows a successful insert
\* without a tracking code in the same clock second derives the same code,
\* is rejected with a uniqueness violation and stores no row; so is every
\* insert without a tracking code whose derived code is already stored.
C4_SameSecondCollision ==
  [][/\ ( /\ NoCodeInsert(last) /\ last.result = "ok"
          /\ NoCodeInsert(last') /\ clock' = clock
          /\ EpochSec(last'.now) = EpochSec(last.now) ) =>
            /\ last'.row.tracking_id = last.row.tracking_id
            /\ last'.result = "unique_violation"
            /\ orders' = orders
     /\ ( /\ NoCodeInsert(last') /\ clock' = clock
          /\ \E o \in DOMAIN orders :
               orders[o].tracking_id = last'.row.tracking_id ) =>
            /\ last'.result = "unique_violation"
            /\ orders' = orders]_vars

\* C4 witness: an insert without a code was rejected because another order,
\* inserted earlier in the same second, holds the code it derived.
C4_Witness ==
  /\ NoCodeInsert(last)
  /\ last.result = "unique_violation"
  /\ last.id \notin DOMAIN orders
  /\ \E o \in DOMAIN orders :
       /\ orders[o].tracking_id = last.row.tracking_id
       /\ orders[o].updated_at # last.now
       /\ EpochSec(orders[o].updated_at) = EpochSec(last.now)

----------------------------------------------------------------------------
(* SpecStatus: order status. Orders are inserted with a supplied tracking  *)
(* code and any status value, and every caller class updates the status to *)
(* any value.                                                              *)

\* The tracking code the callers of SpecStatus supply for an order.
SuppliedCode(id) == IF id = "o1" THEN <<"A">> ELSE <<"B">>

\* Status values a statement supplies: the eight, one that is not among
\* them, and NULL.
StatusValues == Statuses \cup {"shipped", NULL}

StatusInserts ==
  {[id |-> i, customer_id |-> NULL, fabric_id |-> NULL, garment_id |-> NULL,
    tracking_id |-> SuppliedCode(i), status |-> st, updated_at |-> AbsentTs] :
     i \in OrderIds, st \in {DEFAULT, NULL, "shipped", "completed"}}

StatusPatches ==
  [customer_id : {KEEP}, tracking_id : {KeepText},
   status : StatusValues, updated_at : {AbsentTs}]

NextStatus ==
  \/ \E c \in Callers, in \in StatusInserts : InsertOrder(c, clock, in)
  \/ \E c \in Callers, id \in OrderIds, patch \in StatusPatches :
       UpdateOrder(c, clock, id, patch)
  \/ \E c \in Callers, id \in OrderIds : DeleteOrder(c, clock, id)

SpecStatus == Init /\ [][NextStatus]_vars

\* The eight status strings of the claims.
EightStatuses ==
  {"confirmed", "fabric_ready", "cutting", "stitching",
   "embroidery", "quality_check", "ready", "completed"}

\* l is an insert or an update of an order that supplies a status value.
StatusWrite(l) ==
  /\ l.table = "orders"
  /\ \/ l.op = "insert" /\ l.input.status # DEFAULT
     \/ l.op = "update" /\ l.input.status # KEEP

\* C5: a status write with a value outside the eight, NULL included, is
\* rejected; one with a value among the eight is never rejected for its
\* status; every stored order's status is one of the eight.
C5_StatusClosed ==
  /\ \A o \in DOMAIN orders : orders[o].status \in EightStatuses
  /\ StatusWrite(last) /\ last.input.status \notin EightStatuses =>
       last.result # "ok"
  /\ StatusWrite(last) /\ last.input.status \in EightStatuses =>
       last.result # "check_violation"

\* C6: an administrator's update of a stored order's status to any of the
\* eight values is accepted and stored, whatever status the order had.
C6_AnyTransition ==
  [][\A o \in DOMAIN orders :
       ( /\ clock' = clock
         /\ OrderStatement(last', "update")
         /\ last'.id = o
         /\ IsAdmin(last'.caller)
         /\ last'.input.status \in EightStatuses ) =>
           /\ last'.result = "ok"
           /\ last'.old.status = orders[o].status
           /\ orders'[o].status = last'.input.status]_vars

\* C6 witness: an administrator moved a completed order back to confirmed.
C6_Witness ==
  /\ OrderStatement(last, "update")
  /\ IsAdmin(last.caller)
  /\ last.result = "ok"
  /\ last.old.status = "completed"
  /\ last.input.status = "confirmed"
  /\ orders[last.id].status = "confirmed"

----------------------------------------------------------------------------
(* SpecStamp: the updated_at column. A customer and an order are inserted, *)
(* and they and the sample fabric and garment are updated, with and        *)
(* without a caller-supplied updated_at, while the clock runs.             *)

\* A timestamp a caller supplies: later than every value of the clock.
ForgedTs == MaxClock + 5

StampTs == {AbsentTs, ForgedTs}
StampCallers == {Anon, Admin}

StampOrderInserts ==
  [id : {"o1"}, customer_id : {NULL}, fabric_id : {NULL}, garment_id : {NULL},
   tracking_id : {<<"A">>}, status : {DEFAULT}, updated_at : StampTs]
StampOrderPatches ==
  [customer_id : {KEEP}, tracking_id : {KeepText}, status : {KEEP},
   updated_at : StampTs]

NextStamp ==
  \/ Tick
  \/ \E c \in StampCallers, in \in [id : {"c1"}, updated_at : StampTs] :
       InsertCustomer(c, clock, in)
  \/ \E c \in StampCallers, patch \in [updated_at : StampTs] :
       UpdateCustomer(c, clock, "c1", patch)
  \/ \E c \in StampCallers, id \in FabricIds,
        patch \in [featured : {KeepFlag}, updated_at : StampTs] :
       UpdateFabric(c, clock, id, patch)
  \/ \E c \in StampCallers, id \in GarmentIds, patch \in [updated_at : StampTs] :
       UpdateGarment(c, clock, id, patch)
  \/ \E c \in StampCallers, in \in StampOrderInserts : InsertOrder(c, clock, in)
  \/ \E c \in StampCallers, patch \in StampOrderPatches :
       UpdateOrder(c, clock, "o1", patch)

SpecStamp == Init /\ [][NextStamp]_vars

\* This step is a successful statement of kind op on row r of table name.
Wrote(op, name, r) ==
  /\ clock' = clock
  /\ last'.op = op /\ last'.table = name /\ last'.id = r
  /\ last'.result = "ok"

\* C7, for a table with value tab before and tabNext after the step.
StrictlyGreaterIn(tab, tabNext, name) ==
  \A r \in (DOMAIN tab) \cap (DOMAIN tabNext) :
    Wrote("update", name, r) => tabNext[r].updated_at > tab[r].updated_at

\* C7: after any successful update of a row of any of the four tables the
\* row's updated_at is strictly greater than before.
C7_StrictlyGreater ==
  [][/\ StrictlyGreaterIn(customers, customers', "customers")
     /\ StrictlyGreaterIn(fabrics, fabrics', "fabrics")
     /\ StrictlyGreaterIn(garments, garments', "garments")
     /\ StrictlyGreaterIn(orders, orders', "orders")]_vars

StampedNowIn(tab, tabNext, name) ==
  \A r \in (DOMAIN tab) \cap (DOMAIN tabNext) :
    Wrote("update", name, r) =>
      /\ tabNext[r].updated_at = last'.now
      /\ last'.now = clock
      /\ tabNext[r].updated_at > tab[r].updated_at <=> clock > tab[r].updated_at

\* C7, amended: after any successful update of a row of any of the four
\* tables the row's updated_at equals now(), whatever the caller supplied;
\* it is strictly greater than before exactly when now() is later than the
\* value stored before.
C7_StampedNow ==
  [][/\ StampedNowIn(customers, customers', "customers")
     /\ StampedNowIn(fabrics, fabrics', "fabrics")
     /\ StampedNowIn(garments, garments', "garments")
     /\ StampedNowIn(orders, orders', "orders")]_vars

\* C7 witness: an update that supplied a later updated_at stored the clock's
\* value instead, later than the value stored before.
C7_Witness ==
  /\ last.op = "update" /\ last.table = "customers" /\ last.result = "ok"
  /\ last.input.updated_at = ForgedTs
  /\ customers[last.id].updated_at = clock
  /\ last.old.updated_at < clock

SystemStampedIn(tab, tabNext, name) ==
  \A r \in DOMAIN tabNext :
    Wrote("insert", name, r) \/ Wrote("update", name, r) =>
      tabNext[r].updated_at = clock

\* C8: after every successful write of a row, insert or update, the row's
\* updated_at is the store's clock time of that write.
C8_SystemStamped ==
  [][/\ SystemStampedIn(customers, customers', "customers")
     /\ SystemStampedIn(fabrics, fabrics', "fabrics")
     /\ SystemStampedIn(garments, garments', "garments")
     /\ SystemStampedIn(orders, orders', "orders")]_vars

StampedOnUpdateIn(tab, tabNext, name) ==
  /\ \A r \in DOMAIN tabNext :
       /\ Wrote("update", name, r) => tabNext[r].updated_at = clock
       /\ Wrote("insert", name, r) =>
            tabNext[r].updated_at =
              IF last'.input.updated_at = AbsentTs THEN clock
              ELSE last'.input.updated_at
  /\ \A r \in (DOMAIN tab) \cap (DOMAIN tabNext) :
       tabNext[r].updated_at # tab[r].updated_at => Wrote("update", name, r)

\* C8, amended: a row's updated_at is the store's clock time of its most
\* recent successful update; until the first update it is the value the
\* insert supplied, or the clock time of the insert when it supplied none.
\* A caller-supplied updated_at is never stored on update and is stored on
\* insert.
C8_StampedOnUpdate ==
  [][/\ StampedOnUpdateIn(customers, customers', "customers")
     /\ StampedOnUpdateIn(fabrics, fabrics', "fabrics")
     /\ StampedOnUpdateIn(garments, garments', "garments")
     /\ StampedOnUpdateIn(orders, orders', "orders")]_vars

\* C8 witness: an anonymous insert stored the updated_at it supplied.
C8_Witness ==
  /\ last.op = "insert" /\ last.table = "orders" /\ last.result = "ok"
  /\ last.caller = Anon
  /\ last.input.updated_at = ForgedTs
  /\ orders[last.id].updated_at = ForgedTs
  /\ orders[last.id].updated_at # clock

----------------------------------------------------------------------------
(* SpecRef: references. Customers, fabrics and garments are inserted and   *)
(* deleted while orders reference them.                                    *)

RefCallers == {Anon, Admin}

RefOrderInserts ==
  {[id |-> i, customer_id |-> cu, fabric_id |-> f, garment_id |-> g,
    tracking_id |-> SuppliedCode(i), status |-> DEFAULT, updated_at |-> AbsentTs] :
     i \in OrderIds, cu \in CustIds,
     f \in FabricIds \cup {NULL}, g \in GarmentIds \cup {NULL}}

NextRef ==
  \/ \E c \in RefCallers, in \in [id : CustIds, updated_at : {AbsentTs}] :
       InsertCustomer(c, clock, in)
  \/ \E c \in RefCallers, id \in CustIds : DeleteCustomer(c, clock, id)
  \/ \E c \in RefCallers, in \in RefOrderInserts : InsertOrder(c, clock, in)
  \/ \E id \in OrderIds : DeleteOrder(Admin, clock, id)
  \/ \E in \in [id : FabricIds, stock : {50}, featured : {FALSE},
                updated_at : {AbsentTs}] : InsertFabric(Admin, clock, in)
  \/ \E c \in RefCallers, id \in FabricIds : DeleteFabric(c, clock, id)
  \/ \E in \in [id : GarmentIds, updated_at : {AbsentTs}] :
       InsertGarment(Admin, clock, in)
  \/ \E c \in RefCallers, id \in GarmentIds : DeleteGarment(c, clock, id)

SpecRef == Init /\ [][NextRef]_vars

\* This step is a DELETE on row r of table name.
Deleting(name, r) ==
  clock' = clock /\ last'.op = "delete" /\ last'.table = name /\ last'.id = r

\* C9: a successful delete of a customer removes the customer and every
\* order that references it, and leaves every other order stored and
\* unchanged.
C9_CascadeDelete ==
  [][\A cu \in DOMAIN customers :
       Deleting("customers", cu) /\ last'.result = "ok" =>
         /\ cu \notin DOMAIN customers'
         /\ \A o \in DOMAIN orders' : orders'[o].customer_id # cu
         /\ \A o \in DOMAIN orders :
              orders[o].customer_id # cu =>
                o \in DOMAIN orders' /\ orders'[o] = orders[o]
         /\ DOMAIN orders' \subseteq DOMAIN orders]_vars

\* C9 witness: a customer was deleted together with an order of theirs,
\* while another customer's order stays stored.
C9_Witness ==
  /\ last.op = "delete" /\ last.table = "customers" /\ last.result = "ok"
  /\ last.cascade # {}
  /\ last.cascade \cap DOMAIN orders = {}
  /\ \E o \in DOMAIN orders : orders[o].customer_id \in DOMAIN customers

\* This step is an administrator's DELETE of row r of a catalog table that
\* some order references through column col.
AdminDeletesReferenced(name, col, r) ==
  Deleting(name, r) /\ IsAdmin(last'.caller) /\ Referencing(col, r) # {}

\* C10: an administrator's delete of a fabric or garment that orders
\* reference succeeds, removes that catalog row only, and leaves every order
\* stored and unchanged.
C10_DeleteReferencedSucceeds ==
  [][/\ \A f \in DOMAIN fabrics :
          AdminDeletesReferenced("fabrics", "fabric_id", f) =>
            /\ last'.result = "ok"
            /\ fabrics' = Drop(fabrics, {f})
            /\ orders' = orders /\ garments' = garments /\ customers' = customers
     /\ \A g \in DOMAIN garments :
          AdminDeletesReferenced("garments", "garment_id", g) =>
            /\ last'.result = "ok"
            /\ garments' = Drop(garments, {g})
            /\ orders' = orders /\ fabrics' = fabrics /\ customers' = customers]_vars

\* C10, amended: an administrator's delete of a fabric or garment that
\* orders reference is rejected with a foreign-key violation; the catalog
\* row and every order stay stored and unchanged.
C10_DeleteReferencedRejected ==
  [][/\ \A f \in DOMAIN fabrics :
          AdminDeletesReferenced("fabrics", "fabric_id", f) =>
            /\ last'.result = "fk_violation"
            /\ fabrics' = fabrics
            /\ orders' = orders /\ garments' = garments /\ customers' = customers
     /\ \A g \in DOMAIN garments :
          AdminDeletesReferenced("garments", "garment_id", g) =>
            /\ last'.result = "fk_violation"
            /\ garments' = garments
            /\ orders' = orders /\ fabrics' = fabrics /\ customers' = customers]_vars

\* C10 witness: an administrator's delete of a fabric that an order
\* references was rejected, and the fabric and the order are stored.
C10_Witness ==
  /\ last.op = "delete" /\ last.table = "fabrics" /\ IsAdmin(last.caller)
  /\ last.result = "fk_violation"
  /\ last.id \in DOMAIN fabrics
  /\ \E o \in DOMAIN orders : orders[o].fabric_id = last.id

----------------------------------------------------------------------------
(* SpecReject: writes that violate a constraint. Orders are inserted and   *)
(* updated with references, codes and statuses that the schema refuses,    *)
(* and referenced rows are deleted.                                        *)

RejectOrderInserts ==
  {[id |-> i, customer_id |-> "c1", fabric_id |-> f, garment_id |-> NULL,
    tracking_id |-> t, status |-> st, updated_at |-> AbsentTs] :
     i \in OrderIds, f \in FabricIds \cup {NULL},
     t \in {<<"A">>, <<"B">>}, st \in {DEFAULT, "shipped"}}

RejectOrderPatches ==
  [customer_id : {KEEP, "c2"}, tracking_id : {KeepText, <<"A">>},
   status : {KEEP, "shipped"}, updated_at : {AbsentTs}]

NextReject ==
  \/ \E in \in [id : CustIds, updated_at : {AbsentTs}] :
       InsertCustomer(Admin, clock, in)
  \/ \E id \in CustIds : DeleteCustomer(Admin, clock, id)
  \/ \E c \in RefCallers, in \in RejectOrderInserts : InsertOrder(c, clock, in)
  \/ \E id \in OrderIds, patch \in RejectOrderPatches :
       UpdateOrder(Admin, clock, id, patch)
  \/ \E in \in [id : FabricIds, stock : {50}, featured : {FALSE},
                updated_at : {AbsentTs}] : InsertFabric(Admin, clock, in)
  \/ \E id \in FabricIds : DeleteFabric(Admin, clock, id)

SpecReject == Init /\ [][NextReject]_vars

\* The results that report a foreign-key, uniqueness or CHECK violation.
ConstraintViolations == {"fk_violation", "unique_violation", "check_violation"}

\* In the tables cu, fa, ga, ord every order refers to stored rows or to
\* nothing, carries a status the CHECK admits, and shares its tracking code
\* with no other order.
StoreConsistent(cu, fa, ga, ord) ==
  \A o \in DOMAIN ord :
    /\ ord[o].customer_id = NULL \/ ord[o].customer_id \in DOMAIN cu
    /\ ord[o].fabric_id = NULL \/ ord[o].fabric_id \in DOMAIN fa
    /\ ord[o].garment_id = NULL \/ ord[o].garment_id \in DOMAIN ga
    /\ ord[o].status = NULL \/ ord[o].status \in Statuses
    /\ \A p \in DOMAIN ord : p # o => ord[p].tracking_id # ord[o].tracking_id

\* C11: a write that violates a foreign key, a uniqueness constraint or the
\* status CHECK is rejected and applied in no part: the four tables are after
\* the statement what they were before it, and no statement leaves a
\* violation stored.
C11_RejectedWriteNoChange ==
  [][clock' = clock =>
       /\ last'.result \in ConstraintViolations =>
            UNCHANGED <<customers, fabrics, garments, orders>>
       /\ StoreConsistent(customers', fabrics', garments', orders')]_vars

\* C11 witness: an update that would give an order the tracking code of
\* another order was rejected, and both orders are stored with their codes.
C11_Witness ==
  /\ last.op = "update" /\ last.table = "orders"
  /\ last.result = "unique_violation"
  /\ last.id \in DOMAIN orders
  /\ orders[last.id].tracking_id # last.row.tracking_id
  /\ \E o \in DOMAIN orders : o # last.id /\ orders[o].tracking_id = last.row.tracking_id

----------------------------------------------------------------------------
(* SpecAccess: row-level security. Every caller class issues every kind of *)
(* statement on every table.                                               *)

AccessOrderInserts ==
  {[id |-> i, customer_id |-> cu, fabric_id |-> NULL, garment_id |-> NULL,
    tracking_id |-> SuppliedCode(i), status |-> DEFAULT, updated_at |-> AbsentTs] :
     i \in OrderIds, cu \in CustIds}

AccessOrderPatches ==
  [customer_id : {KEEP}, tracking_id : {KeepText},
   status : {"ready"}, updated_at : {AbsentTs}]

NextAccess ==
  \/ \E c \in Callers, name \in Tables : SelectRows(c, clock, name)
  \/ \E c \in Callers, in \in [id : CustIds, updated_at : {AbsentTs}] :
       InsertCustomer(c, clock, in)
  \/ \E c \in Callers, id \in CustIds, patch \in [updated_at : {AbsentTs}] :
       UpdateCustomer(c, clock, id, patch)
  \/ \E c \in Callers, id \in CustIds : DeleteCustomer(c, clock, id)
  \/ \E c \in Callers, in \in [id : FabricIds, stock : {50}, featured : {TRUE},
                                updated_at : {AbsentTs}] :
       InsertFabric(c, clock, in)
  \/ \E c \in Callers, id \in FabricIds,
        patch \in [featured : {<<FALSE>>}, updated_at : {AbsentTs}] :
       UpdateFabric(c, clock, id, patch)
  \/ \E c \in Callers, id \in FabricIds : DeleteFabric(c, clock, id)
  \/ \E c \in Callers, in \in [id : GarmentIds, updated_at : {AbsentTs}] :
       InsertGarment(c, clock, in)
  \/ \E c \in Callers, id \in GarmentIds, patch \in [updated_at : {AbsentTs}] :
       UpdateGarment(c, clock, id, patch)
  \/ \E c \in Callers, id \in GarmentIds : DeleteGarment(c, clock, id)
  \/ \E c \in Callers, in \in AccessOrderInserts : InsertOrder(c, clock, in)
  \/ \E c \in Callers, id \in OrderIds, patch \in AccessOrderPatches :
       UpdateOrder(c, clock, id, patch)
  \/ \E c \in Callers, id \in OrderIds : DeleteOrder(c, clock, id)

SpecAccess == Init /\ [][NextAccess]_vars

\* The last statement was issued by caller c: kind op on table name.
Issued(c, op, name) ==
  last.caller = c /\ last.op = op /\ last.table = name

\* The step is a statement of an anonymous caller.
AnonStatement == clock' = clock /\ last'.caller = Anon

\* C12: an anonymous caller may insert customers and orders and select
\* every row of fabrics, garments and orders; a select on customers returns
\* no row, an insert on fabrics or garments is refused, and an update or
\* delete on any table touches no row; a denied statement changes nothing.
C12_AnonAuthorizedPairs ==
  [][AnonStatement =>
       /\ last'.op = "select" =>
            IF last'.table \in {"fabrics", "garments", "orders"}
            THEN last'.rows = TableOf(last'.table)
            ELSE DOMAIN last'.rows = {}
       /\ last'.op = "insert" =>
            IF last'.table \in {"customers", "orders"}
            THEN last'.result # "rls_violation"
            ELSE /\ last'.result = "rls_violation"
                 /\ UNCHANGED <<customers, fabrics, garments, orders>>
       /\ last'.op \in {"update", "delete"} =>
            /\ last'.result = "no_rows"
            /\ UNCHANGED <<customers, fabrics, garments, orders>>]_vars

\* Customer tables to compare the stored one with.
CustomerStores ==
  UNION {[S -> [updated_at : {0, 1}]] : S \in SUBSET CustIds}

\* Tables a and b hold the same row, or both none, under id u.
SameRowOf(u, a, b) ==
  /\ u \in DOMAIN a <=> u \in DOMAIN b
  /\ u \in DOMAIN a => a[u] = b[u]

\* C13: a select on customers by a signed-in caller who is not an
\* administrator returns exactly the rows whose id is the caller's identity,
\* and returns the same from every customers table that holds the same row
\* under that identity, whatever rows it holds under other identities.
C13_OwnCustomerRowOnly ==
  \A u \in CustIds :
    Issued(User(u), "select", "customers") =>
      /\ last.rows = [i \in {u} \cap DOMAIN customers |-> customers[i]]
      /\ \A other \in CustomerStores :
           SameRowOf(u, customers, other) =>
             VisibleOf(User(u), "customers", other) = last.rows

\* C13 witness: customer c1 selected from customers while c2's row is
\* stored too, and got their own row only.
C13_Witness ==
  /\ Issued(User("c1"), "select", "customers")
  /\ DOMAIN customers = {"c1", "c2"}
  /\ DOMAIN last.rows = {"c1"}

\* The step is a statement of an administrator.
AdminStatement == clock' = clock /\ IsAdmin(last'.caller)

\* C14: an administrator is authorized for every statement on every row of
\* the four tables: a select returns every stored row, no insert or update
\* is refused by a policy whatever the row, and an update or delete of a
\* stored row reaches that row.
C14_AdminAuthorizedEverywhere ==
  [][AdminStatement =>
       /\ last'.op = "select" => last'.rows = TableOf(last'.table)
       /\ last'.op \in {"insert", "update"} => last'.result # "rls_violation"
       /\ last'.op \in {"update", "delete"}
            /\ last'.id \in DOMAIN TableOf(last'.table) =>
              last'.result # "no_rows"]_vars

\* C14 witness: an administrator updated the order of a customer, and the
\* new status is stored.
C14_Witness ==
  /\ IsAdmin(last.caller) /\ last.op = "update" /\ last.table = "orders"
  /\ last.result = "ok"
  /\ last.id \in DOMAIN orders
  /\ orders[last.id].customer_id \in CustIds
  /\ orders[last.id].status = "ready"

Commands == {"SELECT", "INSERT", "UPDATE", "DELETE"}

\* The decision of a rule set ps on a command of caller c on a row: a SELECT
\* or DELETE needs a USING that holds, an INSERT a WITH CHECK, an UPDATE
\* both.
PermitsIn(ps, c, name, cmd, id, row) ==
  LET app == ApplicableIn(ps, c, name, cmd)
      using == \E p \in app : p.using # "none" /\ EvalPolicy(p.using, c, id, row)
      check == \E p \in app : CheckOf(p) # "none" /\ EvalPolicy(CheckOf(p), c, id, row)
  IN CASE cmd = "INSERT" -> check
       [] cmd = "UPDATE" -> using /\ check
       [] OTHER -> using

\* The rule set without the owner-scoped SELECT rule on orders.
WithoutOwnerOrderRule ==
  {p \in Policies : p.name # "Customers can view their own orders"}

\* C15: a select on orders returns every stored order to every caller
\* class, and the rule set without the owner-scoped select rule on orders
\* decides every command of every caller on every stored row as the full
\* rule set does.
C15_OrderSelectOpen ==
  /\ last.op = "select" /\ last.table = "orders" => last.rows = orders
  /\ \A c \in Callers, name \in Tables, cmd \in Commands :
       \A id \in DOMAIN TableOf(name) :
         PermitsIn(Policies, c, name, cmd, id, TableOf(name)[id])
           = PermitsIn(WithoutOwnerOrderRule, c, name, cmd, id, TableOf(name)[id])

\* C16: once an order is stored, its fields change only by an update of an
\* administrator: an update or delete of orders by an anonymous caller or by
\* a signed-in caller who is not an administrator leaves the orders table as
\* it was.
C16_OrderWritesAdminOnly ==
  [][clock' = clock =>
       /\ last'.table = "orders" /\ last'.op \in {"update", "delete"}
            /\ ~IsAdmin(last'.caller) =>
              orders' = orders /\ last'.result = "no_rows"
       /\ \A o \in DOMAIN orders \cap DOMAIN orders' :
            orders'[o] # orders[o] =>
              /\ IsAdmin(last'.caller)
              /\ last'.op = "update" /\ last'.table = "orders" /\ last'.id = o]_vars

\* C16 witness: customer c1 issued an update on the stored order of their
\* own; it reached no row and the order keeps its status.
C16_Witness ==
  /\ Issued(User("c1"), "update", "orders")
  /\ last.result = "no_rows"
  /\ last.id \in DOMAIN orders
  /\ orders[last.id].customer_id = "c1"
  /\ orders[last.id].status = "confirmed"

----------------------------------------------------------------------------
(* The form of stored tracking codes, under Spec. *)

\* t is RT followed by exactly ten ASCII digits.
MatchesPattern(t) ==
  /\ Len(t) = 2 + 10
  /\ t[1] = "R" /\ t[2] = "T"
  /\ \A i \in 3..Len(t) : \E d \in 1..Len(DigitChar) : t[i] = DigitChar[d]

\* C17: in every reachable state every stored order's tracking code is RT
\* followed by exactly ten ASCII digits, whether the trigger issued it or a
\* caller supplied it on insert or update.
C17_PatternInvariant ==
  \A o \in DOMAIN orders : MatchesPattern(orders[o].tracking_id)

\* C17, amended: a code that the trigger issues (insert without a code) is
\* RT followed by exactly ten ASCII digits; a code that the caller supplies
\* on insert, or an administrator on update, is stored as supplied, whatever
\* its form.
C17_IssuedMatchesSuppliedKept ==
  [][clock' = clock /\ last'.table = "orders" /\ last'.result = "ok" =>
       /\ last'.op = "insert" =>
            IF NoCodeInsert(last')
            THEN MatchesPattern(orders'[last'.id].tracking_id)
            ELSE orders'[last'.id].tracking_id = last'.input.tracking_id
       /\ last'.op = "update" /\ last'.input.tracking_id # KeepText =>
            orders'[last'.id].tracking_id = last'.input.tracking_id]_vars

\* C17 witness: one stored order carries a code the trigger issued, of the
\* pattern, and another the code AB that its insert supplied.
C17_Witness ==
  /\ OrderStatement(last, "insert") /\ last.result = "ok"
  /\ last.input.tracking_id = <<"A", "B">>
  /\ last.id \in DOMAIN orders
  /\ orders[last.id].tracking_id = <<"A", "B">>
  /\ \E o \in DOMAIN orders : MatchesPattern(orders[o].tracking_id)

----------------------------------------------------------------------------
(* The frame of an order insert, under SpecRef. *)

\* C18: an insert into orders, successful or rejected, changes no fabric
\* row (stock included), no garment row, no customer row and no other
\* order: it adds at most the one order it names.
C18_OrderInsertFrame ==
  [][clock' = clock /\ OrderStatement(last', "insert") =>
       /\ fabrics' = fabrics /\ garments' = garments /\ customers' = customers
       /\ \A o \in DOMAIN orders : o \in DOMAIN orders' /\ orders'[o] = orders[o]
       /\ DOMAIN orders' \subseteq DOMAIN orders \cup {last'.id}
       /\ last'.result # "ok" => orders' = orders]_vars

\* C18 witness: an order that references fabric f1 was inserted, and the
\* fabric still has its stock of 50.
C18_Witness ==
  /\ OrderStatement(last, "insert") /\ last.result = "ok"
  /\ last.id \in DOMAIN orders
  /\ orders[last.id].fabric_id = "f1"
  /\ "f1" \in DOMAIN fabrics /\ fabrics["f1"].stock = 50

----------------------------------------------------------------------------
(* The list screens: AdminFabrics (Fabrics.tsx), AdminProducts             *)
(* (Products.tsx) and Garments (the public garments page). Each fetches    *)
(* its table once and filters the fetched rows in the browser.             *)

Screens == {"AdminFabrics", "AdminProducts", "Garments"}

\* The longest fetched list of the model.
MaxRows == 2

\* String.prototype.toLowerCase, on the letters of the model.
LowerChar(ch) == CASE ch = "A" -> "a" [] ch = "B" -> "b" [] ch = "C" -> "c" [] OTHER -> ch
toLowerCase(t) == [i \in 1..Len(t) |-> LowerChar(t[i])]

\* String.prototype.includes.
includes(hay, needle) ==
  \E i \in 0..(Len(hay) - Len(needle)) : SubSeq(hay, i + 1, i + Len(needle)) = needle

\* What a filter function leaves: the list it sets, or a TypeError.
Shown(list) == [threw |-> FALSE, list |-> list]
Thrown == [threw |-> TRUE, list |-> <<>>]

\* filterFabrics of AdminFabrics.
filterFabrics(list, term, materialFilter) ==
  LET Hit(fabric) ==
        \/ includes(toLowerCase(fabric.name), toLowerCase(term))
        \/ includes(toLowerCase(fabric.material), toLowerCase(term))
        \/ includes(toLowerCase(fabric.color), toLowerCase(term))
      Same(fabric) == fabric.material = materialFilter
      searched == IF term # <<>> THEN SelectSeq(list, Hit) ELSE list
  IN Shown(IF materialFilter # All THEN SelectSeq(searched, Same) ELSE searched)

\* filterGarments of AdminProducts.
filterGarmentsAdmin(list, term, categoryFilter) ==
  LET Hit(garment) ==
        \/ includes(toLowerCase(garment.name), toLowerCase(term))
        \/ includes(toLowerCase(garment.category), toLowerCase(term))
      Same(garment) == garment.category = categoryFilter
      searched == IF term # <<>> THEN SelectSeq(list, Hit) ELSE list
  IN Shown(IF categoryFilter # All THEN SelectSeq(searched, Same) ELSE searched)

\* filterGarments of Garments. description is nullable, and
\* garment.description.toLowerCase() on null is a TypeError; || reaches it
\* only when neither name nor category contains the term.
filterGarments(list, term, selectedCategory) ==
  LET Early(garment) ==
        \/ includes(toLowerCase(garment.name), toLowerCase(term))
        \/ includes(toLowerCase(garment.category), toLowerCase(term))
      Throws(garment) == ~Early(garment) /\ garment.description = NullText
      Hit(garment) ==
        \/ Early(garment)
        \/ includes(toLowerCase(garment.description), toLowerCase(term))
      Same(garment) == garment.category = selectedCategory
      searched == IF term # <<>> THEN SelectSeq(list, Hit) ELSE list
  IN IF term # <<>> /\ \E i \in 1..Len(list) : Throws(list[i])
     THEN Thrown
     ELSE Shown(IF selectedCategory # All THEN SelectSeq(searched, Same) ELSE searched)

\* The filter function of a screen.
FilterOf(scr, list, term, sel) ==
  CASE scr = "AdminFabrics" -> filterFabrics(list, term, sel)
    [] scr = "AdminProducts" -> filterGarmentsAdmin(list, term, sel)
    [] OTHER -> filterGarments(list, term, sel)

\* The effect that follows every render in which the list, the term or the
\* selection changed: the screen's filter function; a TypeError in it takes
\* the screen down.
FilterEffect(scr, list, term, sel) ==
  LET res == FilterOf(scr, list, term, sel)
  IN /\ filtered' = IF res.threw THEN filtered ELSE res.list
     /\ crashed' = res.threw

\* Rows that a fetch returns. name, material, color and category are NOT
\* NULL columns; description is nullable.
FabricRows ==
  [name : {<<"A", "b">>}, material : {<<"a">>, <<"B">>}, color : {<<"b">>, <<"c">>}]

GarmentRows ==
  [name : {<<"A", "b">>}, category : {<<"a">>, <<"B">>},
   description : {NullText, <<"c">>}]

RowsOf(scr) == IF scr = "AdminFabrics" THEN FabricRows ELSE GarmentRows

\* The lists of at most MaxRows rows, in every order.
RowLists(scr) == UNION {[1..k -> RowsOf(scr)] : k \in 0..MaxRows}

\* Search terms that a user types, and selections.
Terms == {<<>>, <<"a">>, <<"C">>}
Selections == {All, <<"a">>, <<"b">>}

\* The categorical field of a row: material of a fabric, category of a
\* garment.
CategoryOf(scr, row) == IF scr = "AdminFabrics" THEN row.material ELSE row.category

\* The options of the screen's select element: all, and the categorical
\* values of the fetched rows.
Options(scr, list) == {All} \cup {CategoryOf(scr, list[i]) : i \in 1..Len(list)}

\* The screen is shown and its controls are rendered.
Rendered == screen # "none" /\ ~loading /\ ~crashed

\* onChange of the search input: setSearchTerm, then the filter effect.
SetSearchTerm(term) ==
  /\ Rendered
  /\ searchTerm' = term
  /\ FilterEffect(screen, collection, term, selection)
  /\ UNCHANGED <<store, screen, loading, collection, selection,
                 fetch, returned, logged, queries,
                 isAddModalOpen, requests>>

\* onChange of the select element: setMaterialFilter / setCategoryFilter /
\* setSelectedCategory, then the filter effect.
SetSelection(sel) ==
  /\ Rendered
  /\ sel \in Options(screen, collection)
  /\ selection' = sel
  /\ FilterEffect(screen, collection, searchTerm, sel)
  /\ UNCHANGED <<store, screen, loading, collection, searchTerm,
                 fetch, returned, logged, queries,
                 isAddModalOpen, requests>>

\* Clear Filters of Garments, shown when the displayed list is empty.
ClearFilters ==
  /\ Rendered /\ screen = "Garments" /\ filtered = <<>>
  /\ searchTerm' = <<>> /\ selection' = All
  /\ FilterEffect(screen, collection, <<>>, All)
  /\ UNCHANGED <<store, screen, loading, collection,
                 fetch, returned, logged, queries,
                 isAddModalOpen, requests>>

\* The filter effect of the first render with a fetched list.
RunFilter ==
  /\ Rendered
  /\ FilterEffect(screen, collection, searchTerm, selection)
  /\ UNCHANGED <<store, screen, loading, collection, searchTerm, selection,
                 fetch, returned, logged, queries,
                 isAddModalOpen, requests>>

----------------------------------------------------------------------------
(* SpecFilter: the filter functions on every list, term and selection.    *)

InitFilter ==
  /\ InitStore
  /\ screen \in Screens
  /\ loading = FALSE
  /\ collection \in RowLists(screen) /\ returned = collection
  /\ filtered = <<>>
  /\ searchTerm \in Terms /\ selection \in Selections
  /\ fetch = "done" /\ logged = 0 /\ queries = 1
  /\ crashed = FALSE
  /\ isAddModalOpen = FALSE /\ requests = {}

NextFilter ==
  \/ RunFilter
  \/ \E term \in Terms : SetSearchTerm(term)
  \/ \E sel \in Selections : SetSelection(sel)
  \/ ClearFilters

SpecFilter == InitFilter /\ [][NextFilter]_vars

\* The text fields that the search of a screen reads.
SearchedFields(scr) ==
  CASE scr = "AdminFabrics" -> {"name", "material", "color"}
    [] scr = "AdminProducts" -> {"name", "category"}
    [] OTHER -> {"name", "category", "description"}

\* The rows of list, in order, that contain a non-empty term in a searched
\* field, letter case aside, and carry the selection when it is not all.
Displayed(scr, list, term, sel) ==
  LET InField(row, f) ==
        row[f] # NullText /\ includes(toLowerCase(row[f]), toLowerCase(term))
      Wanted(row) ==
        /\ term = <<>> \/ \E f \in SearchedFields(scr) : InField(row, f)
        /\ sel = All \/ CategoryOf(scr, row) = sel
  IN SelectSeq(list, Wanted)

\* C19: after every run of filterFabrics / filterGarments the displayed
\* list is the sub-sequence, in fetch order, of the rows that contain the
\* non-empty search term in a searched text field, letter case aside, and
\* whose categorical field equals the selection when it is not all; this for
\* every storable row, a garment whose description is NULL included.
C19_DisplayedIsFiltered ==
  [][/\ ~crashed'
     /\ filtered' = Displayed(screen', collection', searchTerm', selection')]_vars

----------------------------------------------------------------------------
(* SpecUI: a list screen is mounted, fetches its table once, and the user  *)
(* then searches and selects.                                              *)

\* What the query resolves with when it reports no error: the rows, or null
\* data, which data || [] turns into the empty list.
Responses(scr) ==
  {[null |-> TRUE, rows |-> <<>>]} \cup
  {[null |-> FALSE, rows |-> list] : list \in RowLists(scr)}

AllResponses == UNION {Responses(scr) : scr \in Screens}

\* Whether the name supabase is bound where fetch... reads it. Fabrics.tsx
\* and Products.tsx import it; the public garments page does not, so there
\* it is bound only if the page's environment provides it as a global, and
\* reading it is a ReferenceError otherwise.
SupabaseBound(scr) == IF scr = "Garments" THEN BOOLEAN ELSE {TRUE}

\* The first render of a screen and its two effects: fetchFabrics /
\* fetchGarments up to its await, and the filter on the empty list. A
\* ReferenceError is thrown inside try: it is logged, and finally clears
\* loading, before any query is issued.
Mount(scr, bound) ==
  /\ screen = "none"
  /\ bound \in SupabaseBound(scr)
  /\ screen' = scr
  /\ collection' = <<>> /\ returned' = <<>>
  /\ searchTerm' = <<>> /\ selection' = All
  /\ FilterEffect(scr, <<>>, <<>>, All)
  /\ IF bound
     THEN /\ fetch' = "pending" /\ queries' = queries + 1
          /\ loading' = TRUE /\ logged' = logged
     ELSE /\ fetch' = "failed" /\ queries' = queries
          /\ loading' = FALSE /\ logged' = logged + 1
  /\ isAddModalOpen' = FALSE /\ requests' = {}
  /\ UNCHANGED store

\* A faulty fetch whose finally block is missing: a failure leaves loading
\* set.
FetchFailNoFinally ==
  /\ fetch = "pending"
  /\ fetch' = "failed"
  /\ logged' = logged + 1
  /\ UNCHANGED <<store, screen, loading, collection, filtered, searchTerm,
                 selection, returned, queries, crashed,
                 isAddModalOpen, requests>>

\* The query resolves without error: setFabrics / setGarments (data || []),
\* finally setLoading(false), then the filter effect on the new list.
FetchOk(response) ==
  /\ fetch = "pending"
  /\ response \in Responses(screen)
  /\ fetch' = "done"
  /\ returned' = response.rows
  /\ collection' = IF response.null THEN <<>> ELSE response.rows
  /\ loading' = FALSE
  /\ FilterEffect(screen, collection', searchTerm, selection)
  /\ UNCHANGED <<store, screen, searchTerm, selection, logged, queries,
                 isAddModalOpen, requests>>

\* The query resolves with an error, or rejects: the error is thrown to
\* catch, which logs it; finally setLoading(false).
FetchFail ==
  /\ fetch = "pending"
  /\ fetch' = "failed"
  /\ logged' = logged + 1
  /\ loading' = FALSE
  /\ UNCHANGED <<store, screen, collection, filtered, searchTerm,
                 selection, returned, queries, crashed,
                 isAddModalOpen, requests>>

\* The pending query settles.
FetchSettles == FetchFail \/ \E response \in AllResponses : FetchOk(response)

NextUI ==
  \/ \E scr \in Screens, bound \in BOOLEAN : Mount(scr, bound)
  \/ \E response \in AllResponses : FetchOk(response)
  \/ FetchFail
  \/ \E term \in Terms : SetSearchTerm(term)
  \/ \E sel \in Selections : SetSelection(sel)
  \/ ClearFilters

SpecUI == Init /\ [][NextUI]_vars

\* Every query that was issued settles: the request is answered or fails.
SpecUIFair == SpecUI /\ WF_vars(FetchSettles)

\* C20: the first fetch of a list screen always finishes: once a screen is
\* mounted loading becomes false, and stays false, whether the query
\* succeeds or fails; after a failure the error has been logged once, the
\* list is empty and no second query is issued; after a success the list is
\* the returned rows.
C20_FetchFinishes ==
  /\ [](/\ fetch = "failed" => ~loading /\ collection = <<>> /\ logged = 1
        /\ fetch = "done" => ~loading /\ collection = returned /\ logged = 0
        /\ queries <= 1)
  /\ (screen # "none" ~> ~loading)

\* C20 witness: the query of AdminFabrics failed; the screen is no longer
\* loading, shows no row, and one error is logged after one query.
C20_Witness ==
  /\ screen = "AdminFabrics" /\ fetch = "failed"
  /\ ~loading /\ collection = <<>> /\ filtered = <<>>
  /\ logged = 1 /\ queries = 1

----------------------------------------------------------------------------
(* SpecPage: the admin screens write to the store. AdminFabrics toggles    *)
(* the featured flag of a listed fabric and adds fabrics; AdminProducts    *)
(* adds garments. A request is sent, served by the store, answered, and    *)
(* its continuation then runs with the list that the handler captured when *)
(* the user clicked.                                                       *)

\* The number of requests the user starts.
MaxRequests == 2

AdminScreens == {"AdminFabrics", "AdminProducts"}

\* The caller of the admin screens.
Session == Admin

\* The table of an admin screen.
ScreenTable(scr) == IF scr = "AdminFabrics" THEN "fabrics" ELSE "garments"

\* The row of the store as the browser holds it.
LocalRow(scr, id, row) ==
  IF scr = "AdminFabrics"
  THEN [id |-> id, name |-> <<"A", "b">>, material |-> <<"a">>,
        color |-> <<"b">>, featured |-> row.featured]
  ELSE [id |-> id, name |-> <<"A", "b">>, category |-> <<"a">>,
        description |-> <<"c">>]

\* The elements of a finite set as a list.
ListOf(S) ==
  CHOOSE list \in [1..Cardinality(S) -> S] : \A x \in S : \E i \in DOMAIN list : list[i] = x

\* The query of an admin screen resolves with the rows of its table that
\* the session may select: setFabrics / setGarments, finally
\* setLoading(false), then the filter effect.
FetchStored ==
  LET seen == Visible(Session, ScreenTable(screen))
      ids == ListOf(DOMAIN seen)
      rows == [i \in DOMAIN ids |-> LocalRow(screen, ids[i], seen[ids[i]])]
  IN /\ fetch = "pending" /\ screen \in AdminScreens
     /\ fetch' = "done"
     /\ returned' = rows /\ collection' = rows
     /\ loading' = FALSE
     /\ FilterEffect(screen, rows, searchTerm, selection)
     /\ UNCHANGED <<store, screen, searchTerm, selection, logged, queries,
                    isAddModalOpen, requests>>

\* The modal's children are rendered when it is open.
ModalShown == Rendered /\ isAddModalOpen

\* A faulty page whose Add New Product button opens the modal too.
OpenAddModalAnyScreen ==
  /\ Rendered /\ screen \in AdminScreens
  /\ isAddModalOpen' = TRUE
  /\ UNCHANGED <<store, screen, loading, collection, filtered, searchTerm,
                 selection, fetch, returned, logged, queries, crashed, requests>>

\* onClick of the span in the Add New Fabric button. The Add New Product
\* button of AdminProducts has no handler.
OpenAddModal ==
  /\ Rendered /\ screen = "AdminFabrics"
  /\ isAddModalOpen' = TRUE
  /\ UNCHANGED <<store, screen, loading, collection, filtered, searchTerm,
                 selection, fetch, returned, logged, queries, crashed, requests>>

\* onClose of the modal, and its Cancel button.
CloseAddModal ==
  /\ ModalShown /\ screen \in AdminScreens
  /\ isAddModalOpen' = FALSE
  /\ UNCHANGED <<store, screen, loading, collection, filtered, searchTerm,
                 selection, fetch, returned, logged, queries, crashed, requests>>

\* A request as the handler sends it: closure is the list of the render in
\* which the user clicked.
NewRequest(kind, id, value) ==
  [n |-> Cardinality(requests) + 1, kind |-> kind, table |-> ScreenTable(screen),
   id |-> id, value |-> value, closure |-> collection,
   state |-> "sent", outcome |-> "none", data |-> NoRow]

\* toggleFeatured up to its await: find the fabric in the list, send
\* update({featured: !fabric.featured}).eq('id', fabricId).
ClickToggle(id) ==
  /\ Rendered /\ screen = "AdminFabrics"
  /\ Cardinality(requests) < MaxRequests
  /\ \E i \in DOMAIN filtered : filtered[i].id = id
  /\ LET at == CHOOSE i \in DOMAIN collection :
                  /\ collection[i].id = id
                  /\ \A j \in 1..(i - 1) : collection[j].id # id
     IN requests' = requests \cup {NewRequest("toggle", id, ~collection[at].featured)}
  /\ UNCHANGED <<store, screen, loading, collection, filtered, searchTerm,
                 selection, fetch, returned, logged, queries, crashed,
                 isAddModalOpen>>

\* handleAddFabric / handleAddGarment up to its await: with a required
\* field empty it alerts and returns; else it sends insert(...).select()
\* .single().
ClickAdd(filled, featured) ==
  /\ ModalShown /\ screen \in AdminScreens
  /\ Cardinality(requests) < MaxRequests
  /\ requests' = IF filled
                 THEN requests \cup {NewRequest("add", NULL, featured)}
                 ELSE requests
  /\ UNCHANGED <<store, screen, loading, collection, filtered, searchTerm,
                 selection, fetch, returned, logged, queries, crashed,
                 isAddModalOpen>>

\* The id that uuid_generate_v4() gives the row of the n-th request.
AddedId(r) ==
  IF r.table = "fabrics"
  THEN (CASE r.n = 1 -> "f2" [] r.n = 2 -> "f3" [] OTHER -> "f4")
  ELSE (CASE r.n = 1 -> "g2" [] r.n = 2 -> "g3" [] OTHER -> "g4")

\* The statement of a request on the store: the tables after it, and its
\* record.
StatementOf(r) ==
  LET fu == FabricUpdate(Session, clock, r.id,
                         [featured |-> <<r.value>>, updated_at |-> AbsentTs])
      fi == FabricInsert(Session, clock,
                         [id |-> AddedId(r), stock |-> 0, featured |-> r.value,
                          updated_at |-> AbsentTs])
      gi == GarmentInsert(Session, clock, [id |-> AddedId(r), updated_at |-> AbsentTs])
  IN CASE r.kind = "toggle" ->
            [fabrics |-> fu.fabrics, garments |-> garments, last |-> fu.last]
       [] r.kind = "add" /\ r.table = "fabrics" ->
            [fabrics |-> fi.fabrics, garments |-> garments, last |-> fi.last]
       [] OTHER ->
            [fabrics |-> fabrics, garments |-> gi.garments, last |-> gi.last]

\* The store runs the statement of a request and answers it. An update
\* that reaches no row is no error; an insert answers with the stored row.
ServeRequest(n) ==
  \E r \in {q \in requests : q.n = n} :
  LET st == StatementOf(r)
      error == st.last.result \notin {"ok", "no_rows"}
      scr == IF r.table = "fabrics" THEN "AdminFabrics" ELSE "AdminProducts"
      data == IF r.kind = "add" /\ ~error
              THEN LocalRow(scr, AddedId(r), st.last.row) ELSE NoRow
  IN /\ r.state = "sent"
     /\ fabrics' = st.fabrics /\ garments' = st.garments /\ last' = st.last
     /\ requests' = (requests \ {r}) \cup
          {[r EXCEPT !.state = "answered",
                     !.outcome = IF error THEN "error" ELSE "ok",
                     !.data = data]}
     /\ UNCHANGED <<clock, customers, orders, screen, loading, collection,
                    filtered, searchTerm, selection, fetch, returned, logged,
                    queries, crashed, isAddModalOpen>>

\* The request does not reach the store: the client reports an error.
FailRequest(n) ==
  \E r \in {q \in requests : q.n = n} :
  /\ r.state = "sent"
  /\ requests' = (requests \ {r}) \cup
       {[r EXCEPT !.state = "answered", !.outcome = "error"]}
  /\ UNCHANGED <<store, screen, loading, collection, filtered, searchTerm,
                 selection, fetch, returned, logged, queries, crashed,
                 isAddModalOpen>>

\* The list that the continuation of a request sets: toggleFeatured maps
\* the captured list, flipping the flag of the fabric; handleAddFabric /
\* handleAddGarment puts the returned row before the captured list.
ListAfter(r) ==
  IF r.kind = "toggle"
  THEN [i \in DOMAIN r.closure |->
          IF r.closure[i].id = r.id
          THEN [r.closure[i] EXCEPT !.featured = ~r.closure[i].featured]
          ELSE r.closure[i]]
  ELSE <<r.data>> \o r.closure

\* The handler resumes after its await. On an error it throws to catch,
\* which logs; else it sets the list (and closes the modal after an add),
\* and the filter effect runs.
CompleteRequest(n) ==
  \E r \in {q \in requests : q.n = n} :
  /\ r.state = "answered"
  /\ screen \in AdminScreens
  /\ requests' = (requests \ {r}) \cup {[r EXCEPT !.state = "done"]}
  /\ IF r.outcome = "ok"
     THEN /\ collection' = ListAfter(r)
          /\ isAddModalOpen' = IF r.kind = "add" THEN FALSE ELSE isAddModalOpen
          /\ FilterEffect(screen, ListAfter(r), searchTerm, selection)
          /\ logged' = logged
     ELSE /\ logged' = logged + 1
          /\ UNCHANGED <<collection, filtered, crashed, isAddModalOpen>>
  /\ UNCHANGED <<store, screen, loading, searchTerm, selection, fetch,
                 returned, queries>>

\* The fabrics that the page can list: the stored ones and the added ones.
PageFabricIds == FabricIds \cup {"f2", "f3", "f4"}

NextPage ==
  \/ \E scr \in AdminScreens : Mount(scr, TRUE)
  \/ FetchStored
  \/ FetchFail
  \/ \E term \in Terms : SetSearchTerm(term)
  \/ \E sel \in Selections : SetSelection(sel)
  \/ OpenAddModal
  \/ CloseAddModal
  \/ \E id \in PageFabricIds : ClickToggle(id)
  \/ \E filled \in BOOLEAN, featured \in BOOLEAN : ClickAdd(filled, featured)
  \/ \E n \in 1..MaxRequests : ServeRequest(n)
  \/ \E n \in 1..MaxRequests : FailRequest(n)
  \/ \E n \in 1..MaxRequests : CompleteRequest(n)

SpecPage == Init /\ [][NextPage]_vars

\* The requests that have not finished.
InFlight == {r \in requests : r.state # "done"}

\* C21: in AdminFabrics, whenever no toggleFeatured or handleAddFabric
\* request is in flight, the local list holds every fabric that the page
\* inserted, and the featured flag of each listed fabric is the stored one;
\* this for every interleaving of toggles and adds, several in flight at
\* once and failed requests included.
C21_LocalAgreesWithStore ==
  screen = "AdminFabrics" /\ Rendered /\ InFlight = {} =>
    /\ \A r \in requests :
         r.kind = "add" /\ r.outcome = "ok" =>
           \E i \in DOMAIN collection : collection[i].id = r.data.id
    /\ \A i \in DOMAIN collection :
         /\ collection[i].id \in DOMAIN fabrics
         /\ collection[i].featured = fabrics[collection[i].id].featured

\* C22: in AdminProducts isAddModalOpen is false in every reachable state,
\* since no user action on the screen sets it; so the add-garment modal is
\* never shown, and handleAddGarment issues no insert: no request is made
\* and no garment is inserted.
C22_ProductsModalNeverOpen ==
  screen = "AdminProducts" =>
    /\ ~isAddModalOpen
    /\ ~ModalShown
    /\ requests = {}
    /\ ~(last.op = "insert" /\ last.table = "garments")
    /\ DOMAIN garments = GarmentIds

\* C22 witness: AdminProducts shows its fetched garments, the user has
\* typed a search term and chosen a category, and the modal is closed.
C22_Witness ==
  /\ screen = "AdminProducts" /\ Rendered /\ fetch = "done"
  /\ collection # <<>> /\ searchTerm = <<"a">> /\ selection = <<"a">>
  /\ ~isAddModalOpen /\ requests = {}

====
